---- MODULE Spec2Model ----
(***************************************************************************)
(* FluidTools embedding service (src/modal_service/app.py): a session-     *)
(* scoped semantic tool index over a Qdrant vector store.                  *)
(*                                                                         *)
(* The store is the dictionary `collections` (collection name -> points);  *)
(* the web endpoints (index, search, delete and the debug listing) are run *)
(* as requests whose steps are the calls the handlers make, in program     *)
(* order: every call to the store, to the embedding model and to the       *)
(* remote service class is one step, and each may raise.  A store call     *)
(* that changes the store may also raise after the change was applied (a   *)
(* response lost on the way back).                                         *)
(*                                                                         *)
(* Qdrant itself is not part of the repository.  Its calls are modelled    *)
(* by the behaviour of the pinned client (qdrant-client 1.7.0, app.py:21): *)
(*   get_collections      lists the existing names;                        *)
(*   create_collection    raises when the name exists;                     *)
(*   delete_collection    does NOT raise when the name is missing;         *)
(*   upsert               raises when the collection is missing, and       *)
(*                        overwrites the ids it is given, keeping others;  *)
(*   search               raises when the collection is missing, and       *)
(*                        returns at most `limit` points by descending     *)
(*                        score, points of equal score in any order.       *)
(*                                                                         *)
(* Specifications:                                                         *)
(*   Spec      requests of two sessions served one after another;          *)
(*   RaceSpec  requests of one session served at the same time;            *)
(*   ConcSpec  two sessions served at the same time, the index and delete  *)
(*             requests of each session one after another;                 *)
(*   HostSpec  requests served one after another by a container that is    *)
(*             recycled when idle;                                         *)
(*   TwinSpec  the methods of EmbeddingService and of the                  *)
(*             LocalEmbeddingService of inspect_embeddings.py called in    *)
(*             step with the same arguments;                               *)
(*   InspectSpec  a session indexed with up to 1001 tools and inspected    *)
(*             through the debug endpoint.                                 *)
(***************************************************************************)
EXTENDS Integers, Sequences, FiniteSets, TLC

\* ---------------------------------------------------------------- bounds

\* Longest tool list a request submits.
MaxTools == 2

\* Largest explicit top_k a search request carries.
MaxTopK == 2

\* How many times the container is recycled.
MaxRecycles == 1

\* ------------------------------------------------------ program constants

\* SearchRequest.top_k default.
DefaultTopK == 15

\* EmbeddingService.dimension, the size every collection is created with.
dimension == 384

\* HTTP status of a normally returned response model.
HttpOk == 200

\* HTTP status of the HTTPException the index endpoint raises.
HttpError == 500

\* HTTP status FastAPI answers with when the body does not fit the
\* request model of the endpoint.
HttpUnprocessable == 422

\* HTTP status of the HTTPException the debug endpoint raises.
HttpNotFound == 404

\* limit=1000 of the scroll the debug endpoint makes.
ScrollLimit == 1000

\* ------------------------------------------------------------------ data

Sessions == {"s1", "s2"}

\* Tool(name, description, parameters); parameters is <<>> for None.
getBalance ==
  [name |-> "getBalance", description |-> "Fetch account balance",
   parameters |-> <<>>]

transferFunds ==
  [name |-> "transferFunds", description |-> "Move money between accounts",
   parameters |-> <<"schema">>]

ToolUniverse == {getBalance, transferFunds}

\* A tool of a long list: "tool1", "tool2", ...
NumberedTool(i) ==
  [name |-> "tool" \o ToString(i), description |-> "step " \o ToString(i),
   parameters |-> <<>>]

\* A list one longer than the default top_k, of different tools.
LongCatalog == [i \in 1..(DefaultTopK + 1) |-> NumberedTool(i)]

\* IndexRequest.tools: every list of at most MaxTools tools of the
\* universe, and the long list.
Catalogs ==
  UNION {[1..n -> ToolUniverse] : n \in 0..MaxTools} \cup {LongCatalog}

\* A tool list with an item that lacks the required field `description`.
MalformedTools == <<[name |-> "getBalance"]>>

\* The `tools` of the bodies posted to /index.
ToolLists == Catalogs \cup {MalformedTools}

\* SearchRequest.query: the two questions, and the empty string.
Queries == {"how much money do I have", "send money to someone", ""}

\* The query of a request body: <<>> when the field is missing, <<q>> when
\* given.
QueryInputs == {<<>>} \cup {<<q>> : q \in Queries}

\* The top_k of a request body: <<>> when the field is omitted, <<k>> when given.
TopKInputs == {<<>>} \cup {<<k>> : k \in 0..MaxTopK}

\* SearchRequest: pydantic fills an omitted top_k with its default.
SearchRequestTopK(top_k_in) ==
  IF top_k_in = <<>> THEN DefaultTopK ELSE top_k_in[1]

\* Tool: `name: str` and `description: str` are required.
ToolValid(tool) == {"name", "description"} \subseteq DOMAIN tool

\* IndexRequest: `tools: List[Tool]`, every item a valid Tool.
IndexRequestValid(tools) == \A i \in 1..Len(tools) : ToolValid(tools[i])

\* Variant: the query is declared with min_length=1.
SearchRequestValidNonEmpty(query_in) ==
  query_in # <<>> /\ query_in[1] # ""

\* SearchRequest: `query: str` is required; any string fits.
SearchRequestValid(query_in) == query_in # <<>>

\* ------------------------------------------------------- pure functions

\* Variant: the session id is left out of the name.
CollectionNameShared(session_id) == "tools_"

\* collection_name = f"tools_{session_id}"
CollectionName(session_id) == "tools_" \o session_id

\* text = f"{tool.name}: {tool.description}"
CompositeDocument(tool) == tool.name \o ": " \o tool.description

\* The vectors the embedding model gives the numbered tools.
ToolVectors ==
  << <<16, 63>>, <<25, 60>>, <<33, 56>>, <<39, 52>>,
     <<-52, -39>>, <<56, 33>>, <<60, 25>>, <<63, 16>>,
     <<-16, -63>>, <<-25, -60>>, <<-33, -56>>, <<-39, -52>>,
     <<52, 39>>, <<-56, -33>>, <<-60, -25>>, <<-63, -16>> >>

\* SentenceTransformer.encode: a deterministic map from text to a vector.
\* The model is external; the table gives every tool text a vector of the
\* same length (65), so that for one query the dot product orders the
\* tools as the cosine does.  The empty string has a vector too, one at
\* the same angle to both named tools.
Embed(text) ==
  CASE text = "getBalance: Fetch account balance" -> <<52, 39>>
    [] text = "transferFunds: Move money between accounts" -> <<-39, 52>>
    [] text = "how much money do I have" -> <<65, 0>>
    [] text = "send money to someone" -> <<0, 65>>
    [] text = "" -> <<13, 91>>
    [] \E i \in 1..Len(ToolVectors) :
         text = "tool" \o ToString(i) \o ": step " \o ToString(i) ->
           ToolVectors[CHOOSE i \in 1..Len(ToolVectors) :
                         text = "tool" \o ToString(i) \o ": step " \o ToString(i)]
    [] OTHER -> <<39, -52>>

\* generate_embeddings_batch: one vector per text, in order.
GenerateEmbeddingsBatch(texts) == [i \in 1..Len(texts) |-> Embed(texts[i])]

\* Distance.COSINE, scaled by the lengths of the two vectors.
Score(u, v) == u[1] * v[1] + u[2] * v[2]

\* Variant: the whole tool, parameters included, is stored.
PayloadWholeTool(tool) == tool

\* payload={"name": tool.name, "description": tool.description}
Payload(tool) == [name |-> tool.name, description |-> tool.description]

\* id=idx of enumerate(zip(tools, embeddings)): ids start at 0.
PointId(idx) == idx

\* Variant: one point per tool name, at the position of its first use.
BuildPointsByName(tools, embeddings) ==
  LET n == IF Len(tools) <= Len(embeddings) THEN Len(tools) ELSE Len(embeddings)
      First(i) == CHOOSE j \in 1..n :
                    /\ tools[j].name = tools[i].name
                    /\ \A k \in 1..n : tools[k].name = tools[i].name => j <= k
  IN  [id \in {PointId(First(i) - 1) : i \in 1..n} |->
         LET i == CHOOSE j \in 1..n : PointId(j - 1) = id
         IN  [vector |-> embeddings[i], payload |-> Payload(tools[i])]]

\* The points insert_points builds: id -> PointStruct(vector, payload).
BuildPoints(tools, embeddings) ==
  LET n == IF Len(tools) <= Len(embeddings) THEN Len(tools) ELSE Len(embeddings)
  IN  [id \in {PointId(i - 1) : i \in 1..n} |->
         LET i == CHOOSE j \in 1..n : PointId(j - 1) = id
         IN  [vector |-> embeddings[i], payload |-> Payload(tools[i])]]

\* Variant: the dot product as the distance.
VectorParamsDot == [size |-> dimension, distance |-> "Dot"]

\* VectorParams(size=self.dimension, distance=Distance.COSINE)
VectorParams == [size |-> dimension, distance |-> "Cosine"]

EmptyCollection == [config |-> VectorParams, points |-> <<>>]

\* ------------------------------------------------------- the vector store

\* self.qdrant.get_collections().collections, as the set of their names.
QdrantGetCollections(colls) == DOMAIN colls

\* any(c.name == collection_name for c in collections)
CollectionExists(names, collection_name) == collection_name \in names

\* Variant: the delete call is dropped.
QdrantDeleteNothing(colls, collection_name) == colls

\* Variant: every collection is dropped.
QdrantDeleteAll(colls, collection_name) == <<>>

\* self.qdrant.delete_collection(collection_name): drops the collection with
\* its points; a missing name is not an error.
QdrantDeleteCollection(colls, collection_name) ==
  [n \in (DOMAIN colls) \ {collection_name} |-> colls[n]]

\* Variant: the store is started afresh with the new collection alone.
QdrantCreateAlone(colls, collection_name) ==
  collection_name :> EmptyCollection

\* Variant: the new collection gets a generation suffix.
QdrantCreateSuffixed(colls, collection_name) ==
  [n \in (DOMAIN colls) \cup {collection_name \o "_2"} |->
     IF n = collection_name \o "_2" THEN EmptyCollection ELSE colls[n]]

\* self.qdrant.create_collection(collection_name, vectors_config): a fresh
\* collection without points (the caller checks that the name is free).
QdrantCreateCollection(colls, collection_name) ==
  [n \in (DOMAIN colls) \cup {collection_name} |->
     IF n = collection_name THEN EmptyCollection ELSE colls[n]]

\* self.qdrant.upsert(collection_name, points): writes every given id,
\* replacing a point of the same id and keeping the points of other ids.
QdrantUpsert(colls, collection_name, points) ==
  [colls EXCEPT ![collection_name].points =
     [id \in (DOMAIN @) \cup (DOMAIN points) |->
        IF id \in DOMAIN points THEN points[id] ELSE @[id]]]

\* The orders in which the store may rank the ids of `ids`: descending
\* score against the query vector, ids of equal score in either order.
RECURSIVE Rankings(_, _, _)
Rankings(points, ids, query_vector) ==
  IF ids = {} THEN {<<>>}
  ELSE LET best == {i \in ids : \A j \in ids :
                      Score(query_vector, points[i].vector)
                        >= Score(query_vector, points[j].vector)}
       IN  UNION {{<<i>> \o rest :
                     rest \in Rankings(points, ids \ {i}, query_vector)} :
                  i \in best}

\* Variant: one more than asked for.
SearchLimitPlusOne(top_k) == top_k + 1

\* limit=top_k
SearchLimit(top_k) == top_k

Min(a, b) == IF a <= b THEN a ELSE b

\* self.qdrant.search(collection_name, query_vector, limit): the possible
\* answers, each a list of ScoredPoint(id, score, payload) of at most
\* `limit` entries.
QdrantSearch(colls, collection_name, query_vector, limit) ==
  LET points == colls[collection_name].points
  IN  {[k \in 1..Min(limit, Len(ranking)) |->
          [id |-> ranking[k],
           score |-> Score(query_vector, points[ranking[k]].vector),
           payload |-> points[ranking[k]].payload]] :
       ranking \in Rankings(points, DOMAIN points, query_vector)}

\* Variant: points of equal score are put in ascending id order.
FormatResultsStable(results) ==
  LET Before(j, i) ==
        \/ results[j].score > results[i].score
        \/ results[j].score = results[i].score /\ results[j].id < results[i].id
  IN  [k \in 1..Len(results) |->
         LET i == CHOOSE i \in 1..Len(results) :
                    Cardinality({j \in 1..Len(results) : Before(j, i)}) = k - 1
         IN  [name |-> results[i].payload.name, score |-> results[i].score]]

\* Variant: the list is built back to front.
FormatResultsReversed(results) ==
  [k \in 1..Len(results) |->
     [name |-> results[Len(results) + 1 - k].payload.name,
      score |-> results[Len(results) + 1 - k].score]]

\* Variant: a search on a missing collection creates it.
StoreAfterSearchCreates(colls, collection_name) ==
  IF collection_name \in DOMAIN colls THEN colls
  ELSE QdrantCreateCollection(colls, collection_name)

\* self.qdrant.search(...) reads: the store after the call is the store
\* before it.
StoreAfterSearch(colls, collection_name) == colls

\* [SearchResult(name=r.payload['name'], score=r.score) for r in results]
FormatResults(results) ==
  [k \in 1..Len(results) |->
     [name |-> results[k].payload.name, score |-> results[k].score]]

\* self.qdrant.get_collection(collection_name): the counts of the
\* collection; every point has one vector.
QdrantGetCollection(colls, collection_name) ==
  [vectors_count |-> Cardinality(DOMAIN colls[collection_name].points),
   points_count |-> Cardinality(DOMAIN colls[collection_name].points)]

\* The ids of a set in ascending order: those below the middle one, the
\* middle one, those above it.
RECURSIVE Ascending(_)
Ascending(ids) ==
  IF ids = {} THEN <<>>
  ELSE LET middle == CHOOSE i \in ids :
                       Cardinality({j \in ids : j < i}) = Cardinality(ids) \div 2
       IN  Ascending({j \in ids : j < middle}) \o <<middle>> \o
           Ascending({j \in ids : j > middle})

\* Variant: the limit is ignored and every point returned.
QdrantScrollAll(colls, collection_name, limit) ==
  LET points == colls[collection_name].points
      order == Ascending(DOMAIN points)
  IN  [k \in 1..Len(order) |->
         [id |-> order[k], payload |-> points[order[k]].payload]]

\* self.qdrant.scroll(collection_name, limit, with_payload=True,
\* with_vectors=False): the first `limit` points by ascending id, each as
\* Record(id, payload) without its vector.
QdrantScroll(colls, collection_name, limit) ==
  LET points == colls[collection_name].points
      order == Ascending(DOMAIN points)
  IN  [k \in 1..Min(limit, Len(order)) |->
         [id |-> order[k], payload |-> points[order[k]].payload]]

\* Variant: the vector is listed with the payload.
ListedToolWithVector(p) ==
  [id |-> p.id, name |-> p.payload.name,
   description |-> p.payload.description, vector |-> <<>>]

\* {"id": p.id, "name": p.payload.get("name"),
\*  "description": p.payload.get("description")}
ListedTool(p) ==
  [id |-> p.id, name |-> p.payload.name, description |-> p.payload.description]

\* ------------------------------------------------------------------ state

VARIABLES
  collections,  \* the store: collection name -> [config, points]
  req,          \* request slot -> the request running in it and its locals
  catalog,      \* history: per session id, what its own requests last did
  host,         \* the container of EmbeddingService: its model and client
  local         \* the LocalEmbeddingService of inspect_embeddings.py: its
                \* store and what its last call gave the caller

vars == <<collections, req, catalog, host, local>>

\* Request slots.  The serial specification runs every request in Main.
Reqs == {"r1", "r2"}

Main == "r1"

\* A free slot.  The fields of the second group are history fields:
\* `raised`, whether an exception was raised while the request ran;
\* `existed`, whether the collection existed when delete_collection was
\* called or, for an index request, when it arrived; `old_count`, how many points the collection held when
\* create_collection listed the store; `ranked`, the list the store
\* returned to search_similar; `calls`, how many calls of the embedding
\* model and of the store the request has made; `conn`, the generation of
\* the container that serves the request; `retry`, whether an index
\* request of the same session and tools had failed or was still running
\* when this one arrived; `alone`, whether no other index or delete
\* request of the same session has been running beside this one;
\* `query_in`, the query as the body of a search request carried it;
\* `failed_at`, the step at which an index request raised ("create:exists"
\* when the store refused to create a name that is taken); `batches`, the
\* lists of texts the request gave the embedding model, one per call;
\* `writes`, the number of points of each upsert the request made.
\* `info` and `listing` are locals of the debug endpoint: <<>> or
\* <<collection_info>>, and the tools of its answer.
IdleReq ==
  [pc |-> "idle", kind |-> "none", session_id |-> "", tools |-> <<>>,
   query |-> "", top_k_in |-> <<>>, top_k |-> 0, exists |-> FALSE,
   embeddings |-> <<>>, status |-> 0, body |-> "none", indexed_count |-> 0,
   results |-> <<>>, deleted |-> FALSE,
   raised |-> FALSE, existed |-> FALSE, old_count |-> 0,
   ranked |-> <<>>, calls |-> 0, conn |-> 0, retry |-> FALSE, alone |-> TRUE,
   query_in |-> <<>>, failed_at |-> "none", batches |-> <<>>, writes |-> <<>>,
   info |-> <<>>, listing |-> <<>>]

\* What the requests made for a session id have done to its catalog:
\* "never" (nothing yet), "present" with the tools last written since the
\* collection was last created, or "deleted".  `shrunk` records that the
\* last write was that of an index request which returned normally and
\* which replaced a collection that held more points than it wrote.
NoCatalog == [state |-> "never", tools |-> <<>>, shrunk |-> FALSE]

CatalogDeleted(c) ==
  IF c.state = "never" THEN c
  ELSE [state |-> "deleted", tools |-> <<>>, shrunk |-> FALSE]

CatalogCreated == [state |-> "present", tools |-> <<>>, shrunk |-> FALSE]

CatalogWritten(tools, old_count, outcome) ==
  [state |-> "present", tools |-> tools,
   shrunk |-> outcome = "ok" /\ old_count > Len(tools)]

\* The container after load_model ran on its start: `store` is "cloud"
\* when QDRANT_URL and QDRANT_API_KEY are set and "memory" otherwise,
\* `generation` counts the containers started so far and `loads` the runs
\* of load_model in this one.
StartedHost(store) == [store |-> store, generation |-> 1, loads |-> 1]

\* load_model: the store the new client is connected to.  The cloud store
\* is the one that was there before; the in-memory store is a new, empty one.
LoadModelStore(store, colls) == IF store = "cloud" THEN colls ELSE <<>>

\* What a direct call of a method of one of the two services gave its
\* caller: `body` is "return" or "raise", `value` the returned value as a
\* list (<<>> for None), `ranked` the list the store gave search_similar,
\* `fault` the backend call that was made to fail during the call, and
\* `found` whether the collection of the session existed at the call.
NoCall ==
  [pc |-> "idle", kind |-> "none", session_id |-> "", body |-> "none",
   value |-> <<>>, ranked |-> <<>>, fault |-> "none", found |-> FALSE]

\* LocalEmbeddingService.__init__: self.qdrant = QdrantClient(":memory:")
LocalInit == [qdrant |-> <<>>, out |-> NoCall]

\* The deployment without the Qdrant Cloud variables, just started.
Init ==
  /\ collections = <<>>
  /\ req = [r \in Reqs |-> IdleReq]
  /\ catalog = [s \in Sessions |-> NoCatalog]
  /\ host = StartedHost("memory")
  /\ local = LocalInit

\* Variant: the handler builds the service again, model and client included.
ServiceHandleReloads(h) == [h EXCEPT !.loads = @ + 1]

\* service = EmbeddingService(): a handle on the deployed class; the
\* container's model and client are not touched.
ServiceHandle(h) == h

\* The request validation FastAPI runs before the handler: a body that
\* does not fit the request model is answered with 422.
RejectInvalid(q) ==
  [q EXCEPT !.pc = "done", !.status = HttpUnprocessable,
            !.body = "RequestValidationError"]

\* A request that calls create_collection, insert_points or
\* delete_collection and has not returned yet.
Writing(q, session_id) ==
  /\ q.kind \in {"index", "delete"}
  /\ q.session_id = session_id
  /\ q.pc \notin {"idle", "done"}

\* The slots when a request that writes session_id arrives in slot r as
\* `q`: the requests writing that session are no longer alone.
Arrive(r, q, session_id) ==
  [o \in Reqs |->
     IF o = r
     THEN [q EXCEPT !.alone = \A x \in Reqs \ {r} : ~Writing(req[x], session_id)]
     ELSE IF req[o].kind \in {"index", "delete"}
             /\ req[o].session_id = session_id /\ req[o].pc # "idle"
          THEN [req[o] EXCEPT !.alone = FALSE]
          ELSE req[o]]

\* Outcomes of one call: it returns ("ok"), it raises with nothing done
\* ("fail"), or, for a call that changes the store, it raises after the
\* change was applied ("lost").
ReadOutcomes == {"ok", "fail"}

WriteOutcomes == {"ok", "fail", "lost"}

Applied(outcome) == outcome \in {"ok", "lost"}

\* ------------------------------------------------------- index_endpoint

\* Variant: the failure is swallowed and an empty IndexResponse returned.
IndexEndpointSwallows(q) ==
  [q EXCEPT !.pc = "done", !.status = HttpOk, !.body = "IndexResponse",
            !.indexed_count = 0, !.raised = TRUE, !.failed_at = q.pc]

\* except Exception: raise HTTPException(status_code=500, ...)
IndexEndpointOnError(q) ==
  [q EXCEPT !.pc = "done", !.status = HttpError, !.body = "HTTPException",
            !.raised = TRUE, !.failed_at = q.pc]

\* return IndexResponse(indexed_count=count, session_id=request.session_id)
IndexEndpointReturn(q, count) ==
  [q EXCEPT !.pc = "done", !.status = HttpOk, !.body = "IndexResponse",
            !.indexed_count = count]

\* POST /index arrives: a body that fits IndexRequest reaches the handler,
\* which is about to call create_collection.
IndexStart(r, session_id, tools) ==
  /\ req[r].pc = "idle"
  /\ IF IndexRequestValid(tools)
     THEN /\ host' = ServiceHandle(host)
          /\ req' = Arrive(r,
               [IdleReq EXCEPT !.pc = "create:list", !.kind = "index",
                               !.session_id = session_id, !.tools = tools,
                               !.conn = host'.generation,
                               !.existed = CollectionName(session_id)
                                             \in DOMAIN collections,
                               !.retry = \E o \in Reqs \ {r} :
                                           /\ req[o].kind = "index"
                                           /\ req[o].session_id = session_id
                                           /\ req[o].tools = tools
                                           /\ req[o].status # HttpOk],
               session_id)
     ELSE /\ req' = [req EXCEPT ![r] =
               RejectInvalid([IdleReq EXCEPT !.kind = "rejected index",
                                             !.session_id = session_id,
                                             !.tools = tools])]
          /\ UNCHANGED host
  /\ UNCHANGED <<collections, catalog, local>>

\* Variant: an existing collection is kept and written into.
AfterExistenceCheckKeep(exists) ==
  IF exists THEN "insert:embed" ELSE "create:create"

\* create_collection: where it goes after the existence check.
AfterExistenceCheck(exists) ==
  IF exists THEN "create:delete" ELSE "create:create"

\* create_collection: list the collections and look for this session's.
\* A failure of the remote call or of the store ends the request.
CreateCollectionList(r) ==
  LET q == [req[r] EXCEPT !.calls = @ + 1]
      name == CollectionName(q.session_id)
      exists == CollectionExists(QdrantGetCollections(collections), name)
  IN  /\ q.pc = "create:list"
      /\ \E outcome \in ReadOutcomes :
           req' = [req EXCEPT ![r] =
             IF outcome = "ok"
             THEN [q EXCEPT !.pc = AfterExistenceCheck(exists),
                            !.exists = exists,
                            !.old_count =
                              IF exists
                              THEN Cardinality(DOMAIN collections[name].points)
                              ELSE 0]
             ELSE IndexEndpointOnError(q)]
      /\ UNCHANGED <<collections, catalog, host, local>>

\* create_collection: the collection exists, delete it.
CreateCollectionDelete(r) ==
  LET q == [req[r] EXCEPT !.calls = @ + 1]
      name == CollectionName(q.session_id)
  IN  /\ q.pc = "create:delete"
      /\ UNCHANGED <<host, local>>
      /\ \E outcome \in WriteOutcomes :
           /\ collections' = IF Applied(outcome)
                             THEN QdrantDeleteCollection(collections, name)
                             ELSE collections
           /\ catalog' = IF Applied(outcome)
                         THEN [catalog EXCEPT ![q.session_id] = CatalogDeleted(@)]
                         ELSE catalog
           /\ req' = [req EXCEPT ![r] =
                IF outcome = "ok" THEN [q EXCEPT !.pc = "create:create"]
                ELSE IndexEndpointOnError(q)]

\* create_collection: create the new collection; the store raises when
\* the name is taken.
CreateCollectionCreate(r) ==
  LET q == [req[r] EXCEPT !.calls = @ + 1]
      name == CollectionName(q.session_id)
  IN  /\ q.pc = "create:create"
      /\ UNCHANGED <<host, local>>
      /\ IF name \in DOMAIN collections
         THEN /\ req' = [req EXCEPT ![r] =
                   [IndexEndpointOnError(q) EXCEPT !.failed_at = "create:exists"]]
              /\ UNCHANGED <<collections, catalog>>
         ELSE \E outcome \in WriteOutcomes :
                /\ collections' = IF Applied(outcome)
                                  THEN QdrantCreateCollection(collections, name)
                                  ELSE collections
                /\ catalog' = IF Applied(outcome)
                              THEN [catalog EXCEPT ![q.session_id] = CatalogCreated]
                              ELSE catalog
                /\ req' = [req EXCEPT ![r] =
                     IF outcome = "ok" THEN [q EXCEPT !.pc = "insert:embed"]
                     ELSE IndexEndpointOnError(q)]

\* Variant: the texts are embedded one call per tool.
EmbeddingCallsPerTool(texts) == [i \in 1..Len(texts) |-> <<texts[i]>>]

\* embeddings = self.generate_embeddings_batch(texts): the calls of the
\* embedding model this makes, each with the list of texts it is given.
EmbeddingCalls(texts) == <<texts>>

\* insert_points: build the texts and embed them in one batch.
InsertPointsEmbed(r) ==
  LET texts == [i \in 1..Len(req[r].tools) |->
                  CompositeDocument(req[r].tools[i])]
      q == [req[r] EXCEPT !.calls = @ + 1,
                          !.batches = @ \o EmbeddingCalls(texts)]
  IN  /\ req[r].pc = "insert:embed"
      /\ \E outcome \in ReadOutcomes :
           req' = [req EXCEPT ![r] =
             IF outcome = "ok"
             THEN [q EXCEPT !.pc = "insert:upsert",
                            !.embeddings = GenerateEmbeddingsBatch(texts)]
             ELSE IndexEndpointOnError(q)]
      /\ UNCHANGED <<collections, catalog, host, local>>

\* insert_points: build the points, upsert them in one write and return
\* len(points) to the endpoint, which answers with it.
InsertPointsUpsert(r) ==
  LET points == BuildPoints(req[r].tools, req[r].embeddings)
      q == [req[r] EXCEPT !.calls = @ + 1,
                          !.writes = Append(@, Cardinality(DOMAIN points))]
      name == CollectionName(q.session_id)
  IN  /\ req[r].pc = "insert:upsert"
      /\ UNCHANGED <<host, local>>
      /\ IF name \notin DOMAIN collections
         THEN /\ req' = [req EXCEPT ![r] = IndexEndpointOnError(q)]
              /\ UNCHANGED <<collections, catalog>>
         ELSE \E outcome \in WriteOutcomes :
                /\ collections' = IF Applied(outcome)
                                  THEN QdrantUpsert(collections, name, points)
                                  ELSE collections
                /\ catalog' = IF Applied(outcome)
                              THEN [catalog EXCEPT ![q.session_id] =
                                      CatalogWritten(q.tools, q.old_count, outcome)]
                              ELSE catalog
                /\ req' = [req EXCEPT ![r] =
                     IF outcome = "ok"
                     THEN IndexEndpointReturn(q, Cardinality(DOMAIN points))
                     ELSE IndexEndpointOnError(q)]

\* ------------------------------------------------------ search_endpoint

\* return SearchResponse(tools=results)
SearchEndpointReturn(q, results) ==
  [q EXCEPT !.pc = "done", !.status = HttpOk, !.body = "SearchResponse",
            !.results = results]

\* Variant: the endpoint raises as the index endpoint does.
SearchEndpointRaises(q) ==
  [q EXCEPT !.pc = "done", !.status = HttpError, !.body = "HTTPException",
            !.raised = TRUE]

\* search_endpoint, except Exception: return SearchResponse(tools=[])
SearchEndpointOnError(q) ==
  [q EXCEPT !.pc = "done", !.status = HttpOk, !.body = "SearchResponse",
            !.results = <<>>, !.raised = TRUE]

\* search_similar, except Exception: return [] (which the endpoint wraps).
SearchSimilarOnError(q) ==
  SearchEndpointReturn([q EXCEPT !.raised = TRUE], <<>>)

\* POST /search arrives: a body that fits SearchRequest reaches the
\* handler, which is about to call search_similar.
SearchStart(r, session_id, query_in, top_k_in) ==
  /\ req[r].pc = "idle"
  /\ IF SearchRequestValid(query_in)
     THEN /\ host' = ServiceHandle(host)
          /\ req' = [req EXCEPT ![r] =
               [IdleReq EXCEPT !.pc = "search:embed", !.kind = "search",
                               !.session_id = session_id,
                               !.query = query_in[1],
                               !.query_in = query_in,
                               !.top_k_in = top_k_in,
                               !.top_k = SearchRequestTopK(top_k_in),
                               !.conn = host'.generation]]
     ELSE /\ req' = [req EXCEPT ![r] =
               RejectInvalid([IdleReq EXCEPT !.kind = "rejected search",
                                             !.session_id = session_id,
                                             !.query_in = query_in,
                                             !.top_k_in = top_k_in])]
          /\ UNCHANGED host
  /\ UNCHANGED <<collections, catalog, local>>

\* search_similar: embed the query.  The remote call itself may fail
\* ("remote"), which only the endpoint's handler sees.
SearchSimilarEmbed(r) ==
  LET q == [req[r] EXCEPT !.calls = @ + 1]
  IN  /\ q.pc = "search:embed"
      /\ \E outcome \in ReadOutcomes \cup {"remote"} :
           req' = [req EXCEPT ![r] =
             CASE outcome = "ok" ->
                    [q EXCEPT !.pc = "search:query",
                              !.embeddings = <<Embed(q.query)>>]
               [] outcome = "fail" -> SearchSimilarOnError(q)
               [] OTHER -> SearchEndpointOnError(q)]
      /\ UNCHANGED <<collections, catalog, host, local>>

\* search_similar: query the store and format what it returns.
SearchSimilarQuery(r) ==
  LET q == [req[r] EXCEPT !.calls = @ + 1]
      name == CollectionName(q.session_id)
  IN  /\ q.pc = "search:query"
      /\ IF name \notin DOMAIN collections
         THEN req' = [req EXCEPT ![r] = SearchSimilarOnError(q)]
         ELSE \E outcome \in ReadOutcomes :
                IF outcome = "ok"
                THEN \E results \in QdrantSearch(collections, name,
                                                 q.embeddings[1],
                                                 SearchLimit(q.top_k)) :
                       req' = [req EXCEPT ![r] =
                         SearchEndpointReturn([q EXCEPT !.ranked = results],
                                              FormatResults(results))]
                ELSE req' = [req EXCEPT ![r] = SearchSimilarOnError(q)]
      /\ collections' = StoreAfterSearch(collections, name)
      /\ UNCHANGED <<catalog, host, local>>

\* ---------------------------------------------- delete_session_endpoint

\* return DeleteResponse(deleted=success)
DeleteEndpointReturn(q, success) ==
  [q EXCEPT !.pc = "done", !.status = HttpOk, !.body = "DeleteResponse",
            !.deleted = success]

\* Variant: the endpoint raises as the index endpoint does.
DeleteEndpointRaises(q) ==
  [q EXCEPT !.pc = "done", !.status = HttpError, !.body = "HTTPException",
            !.raised = TRUE]

\* delete_session_endpoint, except Exception: return DeleteResponse(deleted=False)
DeleteEndpointOnError(q) ==
  [q EXCEPT !.pc = "done", !.status = HttpOk, !.body = "DeleteResponse",
            !.deleted = FALSE, !.raised = TRUE]

\* delete_collection: `return True` after the store call returned.
DeleteCollectionReturn == TRUE

\* delete_collection, except Exception: `return False`.
DeleteCollectionOnError == FALSE

\* DELETE /session/{session_id} arrives.
DeleteStart(r, session_id) ==
  /\ req[r].pc = "idle"
  /\ host' = ServiceHandle(host)
  /\ req' = Arrive(r,
       [IdleReq EXCEPT !.pc = "delete:delete", !.kind = "delete",
                       !.session_id = session_id,
                       !.conn = host'.generation],
       session_id)
  /\ UNCHANGED <<collections, catalog, local>>

\* delete_collection: one delete call on the store, whose result is not
\* read; the method returns True unless the call raised.
DeleteCollectionDelete(r) ==
  LET q == [req[r] EXCEPT
              !.existed = CollectionName(req[r].session_id) \in DOMAIN collections,
              !.calls = @ + 1]
      name == CollectionName(q.session_id)
  IN  /\ q.pc = "delete:delete"
      /\ UNCHANGED <<host, local>>
      /\ \E outcome \in WriteOutcomes \cup {"remote"} :
           /\ collections' = IF Applied(outcome)
                             THEN QdrantDeleteCollection(collections, name)
                             ELSE collections
           /\ catalog' = IF Applied(outcome)
                         THEN [catalog EXCEPT ![q.session_id] = CatalogDeleted(@)]
                         ELSE catalog
           /\ req' = [req EXCEPT ![r] =
                CASE outcome = "ok" ->
                       DeleteEndpointReturn(q, DeleteCollectionReturn)
                  [] outcome = "remote" -> DeleteEndpointOnError(q)
                  [] OTHER ->
                       DeleteEndpointReturn([q EXCEPT !.raised = TRUE],
                                            DeleteCollectionOnError)]

\* ----------------------------------------------- debug_session_endpoint

\* except Exception: raise HTTPException(status_code=404, ...)
DebugEndpointOnError(q) ==
  [q EXCEPT !.pc = "done", !.status = HttpNotFound, !.body = "HTTPException",
            !.raised = TRUE]

\* return {"session_id", "collection_name", "vectors_count",
\*         "points_count", "tools"}
DebugEndpointReturn(q, points) ==
  [q EXCEPT !.pc = "done", !.status = HttpOk, !.body = "dict",
            !.listing = [k \in 1..Len(points) |-> ListedTool(points[k])]]

\* GET /debug/session/{session_id} arrives.
DebugStart(r, session_id) ==
  /\ req[r].pc = "idle"
  /\ host' = ServiceHandle(host)
  /\ req' = [req EXCEPT ![r] =
       [IdleReq EXCEPT !.pc = "debug:info", !.kind = "debug",
                       !.session_id = session_id,
                       !.conn = host'.generation]]
  /\ UNCHANGED <<collections, catalog, local>>

\* collection_info = service.qdrant.get_collection(collection_name).  The
\* client is read off the handle built in the web function; where the
\* handle gives none, or the store does not answer, or the collection is
\* missing, the call raises.
DebugGetCollection(r) ==
  LET q == [req[r] EXCEPT !.calls = @ + 1]
      name == CollectionName(q.session_id)
  IN  /\ q.pc = "debug:info"
      /\ \E outcome \in ReadOutcomes :
           req' = [req EXCEPT ![r] =
             IF outcome = "ok" /\ name \in DOMAIN collections
             THEN [q EXCEPT !.pc = "debug:scroll",
                            !.info = <<QdrantGetCollection(collections, name)>>]
             ELSE DebugEndpointOnError(q)]
      /\ UNCHANGED <<collections, catalog, host, local>>

\* points, _ = service.qdrant.scroll(...), and the answer built from it.
DebugScroll(r) ==
  LET q == [req[r] EXCEPT !.calls = @ + 1]
      name == CollectionName(q.session_id)
  IN  /\ q.pc = "debug:scroll"
      /\ \E outcome \in ReadOutcomes :
           req' = [req EXCEPT ![r] =
             IF outcome = "ok" /\ name \in DOMAIN collections
             THEN DebugEndpointReturn(q,
                    QdrantScroll(collections, name, ScrollLimit))
             ELSE DebugEndpointOnError(q)]
      /\ UNCHANGED <<collections, catalog, host, local>>

\* ------------------------------------------------------------ the system

\* The response is sent and the slot is free again.
Respond(r) ==
  /\ req[r].pc = "done"
  /\ req' = [req EXCEPT ![r] = IdleReq]
  /\ UNCHANGED <<collections, catalog, host, local>>

\* Requests served one after another: each runs to its response before
\* the next arrives.
Next ==
  \/ \E s \in Sessions, tools \in ToolLists : IndexStart(Main, s, tools)
  \/ CreateCollectionList(Main)
  \/ CreateCollectionDelete(Main)
  \/ CreateCollectionCreate(Main)
  \/ InsertPointsEmbed(Main)
  \/ InsertPointsUpsert(Main)
  \/ \E s \in Sessions, query_in \in QueryInputs, top_k_in \in TopKInputs :
       SearchStart(Main, s, query_in, top_k_in)
  \/ SearchSimilarEmbed(Main)
  \/ SearchSimilarQuery(Main)
  \/ \E s \in Sessions : DeleteStart(Main, s)
  \/ DeleteCollectionDelete(Main)
  \/ \E s \in Sessions : DebugStart(Main, s)
  \/ DebugGetCollection(Main)
  \/ DebugScroll(Main)
  \/ Respond(Main)

Spec == Init /\ [][Next]_vars

\* The steps a request in slot r takes once it has arrived.
Step(r) ==
  \/ CreateCollectionList(r)
  \/ CreateCollectionDelete(r)
  \/ CreateCollectionCreate(r)
  \/ InsertPointsEmbed(r)
  \/ InsertPointsUpsert(r)
  \/ SearchSimilarEmbed(r)
  \/ SearchSimilarQuery(r)
  \/ DeleteCollectionDelete(r)
  \/ Respond(r)

\* The session the concurrent requests are about, and the two tool lists
\* indexed for it: two tools, then one tool of another name.
RaceSession == "s1"

OldCatalog == <<getBalance, getBalance>>

NewCatalog == <<transferFunds>>

RaceCatalogs == {OldCatalog, NewCatalog}

RaceQuery == <<"how much money do I have">>

\* Requests of one session served at the same time: both slots take any
\* request, and the steps of the two interleave.  A caller that gave up
\* waiting for a request has not stopped it.
RaceNext ==
  \E r \in Reqs :
    \/ \E tools \in RaceCatalogs : IndexStart(r, RaceSession, tools)
    \/ SearchStart(r, RaceSession, RaceQuery, <<>>)
    \/ DeleteStart(r, RaceSession)
    \/ Step(r)

RaceSpec == Init /\ [][RaceNext]_vars

\* The session served beside RaceSession.
PeerSession == "s2"

Writer == "r1"

Reader == "r2"

\* Requests served at the same time, the index and delete requests of
\* each session one after another (the orchestrator of a session sends
\* them so): slot Writer runs the index and delete requests of
\* RaceSession, slot Reader runs searches on RaceSession and every request
\* of PeerSession, and the steps of the two slots interleave.
ConcNext ==
  \/ \E tools \in RaceCatalogs : IndexStart(Writer, RaceSession, tools)
  \/ DeleteStart(Writer, RaceSession)
  \/ SearchStart(Reader, RaceSession, RaceQuery, <<>>)
  \/ \E tools \in RaceCatalogs : IndexStart(Reader, PeerSession, tools)
  \/ DeleteStart(Reader, PeerSession)
  \/ SearchStart(Reader, PeerSession, RaceQuery, <<>>)
  \/ \E r \in Reqs : Step(r)

ConcSpec == Init /\ [][ConcNext]_vars

\* container_idle_timeout=300: a container no request is running in is
\* stopped, and the next request starts a new one, whose load_model loads
\* the model and builds the client again.
Recycle ==
  /\ \A r \in Reqs : req[r].pc = "idle"
  /\ host.generation <= MaxRecycles
  /\ host' = [StartedHost(host.store) EXCEPT
                !.generation = host.generation + 1]
  /\ collections' = LoadModelStore(host.store, collections)
  /\ UNCHANGED <<req, catalog, local>>

\* The deployment just started, with or without the Qdrant Cloud
\* variables.
HostInit ==
  /\ collections = <<>>
  /\ req = [r \in Reqs |-> IdleReq]
  /\ catalog = [s \in Sessions |-> NoCatalog]
  /\ \E store \in {"memory", "cloud"} : host = StartedHost(store)
  /\ local = LocalInit

\* Requests served one after another by a container that is recycled
\* when idle.
HostNext ==
  \/ \E s \in Sessions, tools \in RaceCatalogs : IndexStart(Main, s, tools)
  \/ \E s \in Sessions : SearchStart(Main, s, RaceQuery, <<>>)
  \/ \E s \in Sessions : DeleteStart(Main, s)
  \/ Step(Main)
  \/ Recycle

HostSpec == HostInit /\ [][HostNext]_vars

\* A tool list one longer than what the debug endpoint asks the store for.
HugeCatalog == [i \in 1..(ScrollLimit + 1) |-> NumberedTool(i)]

\* The tool lists indexed before a session is inspected.
InspectCatalogs == {HugeCatalog, <<getBalance, transferFunds>>, <<>>}

\* The session that is inspected.
InspectSession == "s1"

\* A session indexed and inspected, one request after another.
InspectNext ==
  \/ \E tools \in InspectCatalogs : IndexStart(Main, InspectSession, tools)
  \/ CreateCollectionList(Main)
  \/ CreateCollectionDelete(Main)
  \/ CreateCollectionCreate(Main)
  \/ InsertPointsEmbed(Main)
  \/ InsertPointsUpsert(Main)
  \/ DebugStart(Main, InspectSession)
  \/ DebugGetCollection(Main)
  \/ DebugScroll(Main)
  \/ Respond(Main)

InspectSpec == Init /\ [][InspectNext]_vars

\* ------------------------------------------------ LocalEmbeddingService

\* LocalEmbeddingService.dimension
LocalDimension == 384

\* collection_name = f"tools_{session_id}"
LocalCollectionName(session_id) == "tools_" \o session_id

\* f"{tool['name']}: {tool['description']}"
LocalCompositeDocument(tool) == tool.name \o ": " \o tool.description

\* Variant: the name alone is stored.
LocalPayloadNameOnly(tool) == [name |-> tool.name]

\* payload={"name": tool['name'], "description": tool['description']}
LocalPayload(tool) == [name |-> tool.name, description |-> tool.description]

\* VectorParams(size=self.dimension, distance=Distance.COSINE)
LocalVectorParams == [size |-> LocalDimension, distance |-> "Cosine"]

\* generate_embeddings_batch: [emb.tolist() for emb in self.model.encode(texts)]
LocalGenerateEmbeddingsBatch(texts) == [i \in 1..Len(texts) |-> Embed(texts[i])]

\* generate_embedding: self.model.encode(text).tolist()
LocalGenerateEmbedding(text) == Embed(text)

\* The points insert_points builds: id=idx of enumerate(zip(tools, embeddings)).
LocalBuildPoints(tools, embeddings) ==
  LET n == IF Len(tools) <= Len(embeddings) THEN Len(tools) ELSE Len(embeddings)
  IN  [id \in 0..(n - 1) |->
         [vector |-> embeddings[id + 1], payload |-> LocalPayload(tools[id + 1])]]

\* What a call gave: the store after it and the outcome.
Returned(store, value, ranked) ==
  [store |-> store, body |-> "return", value |-> value, ranked |-> ranked]

Raised(store) ==
  [store |-> store, body |-> "raise", value |-> <<>>, ranked |-> <<>>]

\* LocalEmbeddingService.create_collection: list, delete when present,
\* create; nothing is caught, the method returns None.
LocalCreateCollection(store, session_id, fault) ==
  LET collection_name == LocalCollectionName(session_id)
      exists == collection_name \in QdrantGetCollections(store)
      deleted == IF exists THEN QdrantDeleteCollection(store, collection_name)
                 ELSE store
  IN  CASE fault = "list" -> Raised(store)
        [] fault = "delete" /\ exists -> Raised(store)
        [] fault = "create" -> Raised(deleted)
        [] OTHER ->
             Returned([n \in (DOMAIN deleted) \cup {collection_name} |->
                         IF n = collection_name
                         THEN [config |-> LocalVectorParams, points |-> <<>>]
                         ELSE deleted[n]],
                      <<>>, <<>>)

\* LocalEmbeddingService.insert_points: embed the texts in one batch,
\* build the points, upsert them, return len(points).
LocalInsertPoints(store, session_id, tools, fault) ==
  LET collection_name == LocalCollectionName(session_id)
      texts == [i \in 1..Len(tools) |-> LocalCompositeDocument(tools[i])]
      points == LocalBuildPoints(tools, LocalGenerateEmbeddingsBatch(texts))
  IN  CASE fault = "embed" -> Raised(store)
        [] fault = "upsert" -> Raised(store)
        [] collection_name \notin DOMAIN store -> Raised(store)
        [] OTHER -> Returned(QdrantUpsert(store, collection_name, points),
                             <<Cardinality(DOMAIN points)>>, <<>>)

\* Variant: a failure of the search is caught and an empty list returned.
LocalSearchSimilarCaught(store, session_id, query, top_k, fault) ==
  LET collection_name == LocalCollectionName(session_id)
  IN  IF fault # "none" \/ collection_name \notin DOMAIN store
      THEN {Returned(store, <<>>, <<>>)}
      ELSE {Returned(store, results, results) :
              results \in QdrantSearch(store, collection_name,
                                       LocalGenerateEmbedding(query), top_k)}

\* LocalEmbeddingService.search_similar: embed the query, search, return
\* the list of the store as it is; nothing is caught.
LocalSearchSimilar(store, session_id, query, top_k, fault) ==
  LET collection_name == LocalCollectionName(session_id)
  IN  IF fault # "none" \/ collection_name \notin DOMAIN store
      THEN {Raised(store)}
      ELSE {Returned(store, results, results) :
              results \in QdrantSearch(store, collection_name,
                                       LocalGenerateEmbedding(query), top_k)}

\* LocalEmbeddingService.delete_collection: nothing is caught, the method
\* returns None.
LocalDeleteCollection(store, session_id, fault) ==
  LET collection_name == LocalCollectionName(session_id)
  IN  IF fault = "delete" THEN Raised(store)
      ELSE Returned(QdrantDeleteCollection(store, collection_name), <<>>, <<>>)

\* ------------------------------------- the methods of EmbeddingService,
\* called one at a time and run to their end

\* EmbeddingService.create_collection: except Exception: raise.
ServiceCreateCollection(store, session_id, fault) ==
  LET collection_name == CollectionName(session_id)
      exists == CollectionExists(QdrantGetCollections(store), collection_name)
      deleted == IF exists THEN QdrantDeleteCollection(store, collection_name)
                 ELSE store
  IN  CASE fault = "list" -> Raised(store)
        [] fault = "delete" /\ exists -> Raised(store)
        [] fault = "create" -> Raised(deleted)
        [] OTHER -> Returned(QdrantCreateCollection(deleted, collection_name),
                             <<TRUE>>, <<>>)

\* EmbeddingService.insert_points: nothing is caught.
ServiceInsertPoints(store, session_id, tools, fault) ==
  LET collection_name == CollectionName(session_id)
      texts == [i \in 1..Len(tools) |-> CompositeDocument(tools[i])]
      points == BuildPoints(tools, GenerateEmbeddingsBatch(texts))
  IN  CASE fault = "embed" -> Raised(store)
        [] fault = "upsert" -> Raised(store)
        [] collection_name \notin DOMAIN store -> Raised(store)
        [] OTHER -> Returned(QdrantUpsert(store, collection_name, points),
                             <<Cardinality(DOMAIN points)>>, <<>>)

\* EmbeddingService.search_similar: except Exception: return [].
ServiceSearchSimilar(store, session_id, query, top_k, fault) ==
  LET collection_name == CollectionName(session_id)
  IN  IF fault # "none" \/ collection_name \notin DOMAIN store
      THEN {Returned(store, <<>>, <<>>)}
      ELSE {Returned(store, FormatResults(results), results) :
              results \in QdrantSearch(store, collection_name, Embed(query),
                                       SearchLimit(top_k))}

\* EmbeddingService.delete_collection: except Exception: return False.
ServiceDeleteCollection(store, session_id, fault) ==
  LET collection_name == CollectionName(session_id)
  IN  IF fault = "delete"
      THEN Returned(store, <<DeleteCollectionOnError>>, <<>>)
      ELSE Returned(QdrantDeleteCollection(store, collection_name),
                    <<DeleteCollectionReturn>>, <<>>)

\* --------------------------------------------- the two services side by side

\* The tool lists given to both services: none, one tool, two tools of
\* one name, two tools of two names.
TwinCatalogs == RaceCatalogs \cup {<<>>, <<getBalance, transferFunds>>}

\* The backend calls of a method that may be made to fail.
Faults(kind) ==
  {"none"} \cup
  CASE kind = "create_collection" -> {"list", "delete", "create"}
    [] kind = "insert_points" -> {"embed", "upsert"}
    [] kind = "search_similar" -> {"embed", "search"}
    [] OTHER -> {"delete"}

\* The record of a call: its outcome without the store.
MethodCall(kind, session_id, fault, found, out) ==
  [pc |-> "done", kind |-> kind, session_id |-> session_id, body |-> out.body,
   value |-> out.value, ranked |-> out.ranked, fault |-> fault,
   found |-> found]

\* One call, with the same arguments, of the same method of both services,
\* the backend call `fault` failing in both: `s` and `l` are what the call
\* gave EmbeddingService and LocalEmbeddingService.
TwinCall(kind, session_id, fault, s, l) ==
  /\ collections' = s.store
  /\ req' = [req EXCEPT ![Main] =
               MethodCall(kind, session_id, fault,
                          CollectionName(session_id) \in DOMAIN collections, s)]
  /\ local' = [qdrant |-> l.store,
               out |-> MethodCall(kind, session_id, fault,
                         LocalCollectionName(session_id) \in DOMAIN local.qdrant,
                         l)]
  /\ UNCHANGED <<catalog, host>>

TwinCreateCollection ==
  \E session_id \in Sessions, fault \in Faults("create_collection") :
    TwinCall("create_collection", session_id, fault,
             ServiceCreateCollection(collections, session_id, fault),
             LocalCreateCollection(local.qdrant, session_id, fault))

TwinInsertPoints ==
  \E session_id \in Sessions, tools \in TwinCatalogs,
     fault \in Faults("insert_points") :
    TwinCall("insert_points", session_id, fault,
             ServiceInsertPoints(collections, session_id, tools, fault),
             LocalInsertPoints(local.qdrant, session_id, tools, fault))

TwinSearchSimilar ==
  \E session_id \in Sessions, query \in Queries, top_k \in 0..MaxTopK,
     fault \in Faults("search_similar") :
    \E s \in ServiceSearchSimilar(collections, session_id, query, top_k, fault),
       l \in LocalSearchSimilar(local.qdrant, session_id, query, top_k, fault) :
      TwinCall("search_similar", session_id, fault, s, l)

TwinDeleteCollection ==
  \E session_id \in Sessions, fault \in Faults("delete_collection") :
    TwinCall("delete_collection", session_id, fault,
             ServiceDeleteCollection(collections, session_id, fault),
             LocalDeleteCollection(local.qdrant, session_id, fault))

\* The methods of the two services called in step, one call at a time.
TwinNext ==
  \/ TwinCreateCollection
  \/ TwinInsertPoints
  \/ TwinSearchSimilar
  \/ TwinDeleteCollection

TwinSpec == Init /\ [][TwinNext]_vars

\* ----------------------------------------------------------- properties

Finished(r, kind) == req[r].pc = "done" /\ req[r].kind = kind

ResultNames(q) == {q.results[k].name : k \in 1..Len(q.results)}

ToolNames(tools) == {tools[i].name : i \in 1..Len(tools)}

HasCollection(session_id) == CollectionName(session_id) \in DOMAIN collections

StoredPoints(session_id) == collections[CollectionName(session_id)].points

\* C1: every name a search on session S returns is the name of a tool of
\* the list most recently indexed for S (nothing, when S was never indexed
\* or its collection was deleted or recreated since); it is never a name
\* indexed only under another session id.
SearchReturnsOnlyOwnCatalog ==
  \A r \in Reqs :
    Finished(r, "search") =>
      ResultNames(req[r]) \subseteq ToolNames(catalog[req[r].session_id].tools)

\* C1 witness: a search answers with a tool of its own session and has room
\* for more, while another session holds a tool this session never indexed.
SearchBesideForeignCatalog ==
  \E r \in Reqs :
    /\ Finished(r, "search")
    /\ req[r].results # <<>>
    /\ Len(req[r].results) < req[r].top_k
    /\ \E o \in Sessions \ {req[r].session_id} :
         /\ HasCollection(o)
         /\ ToolNames(catalog[o].tools)
              \ ToolNames(catalog[req[r].session_id].tools) # {}

\* C2: re-indexing replaces the catalog.  When an index request returns
\* normally the collection holds no point under an id >= len(tools) and
\* only tools of the submitted list; and a search on a session whose
\* catalog was written returns only tools of the list last written and at
\* most as many results as that list has tools, also when the list is
\* shorter than the one it replaced.
ReindexReplacesCatalog ==
  \A r \in Reqs :
    LET q == req[r]
        s == q.session_id
    IN  /\ (Finished(r, "index") /\ q.status = HttpOk) =>
             /\ HasCollection(s)
             /\ catalog[s].tools = q.tools
             /\ \A id \in DOMAIN StoredPoints(s) :
                  /\ id < Len(q.tools)
                  /\ StoredPoints(s)[id].payload.name \in ToolNames(q.tools)
        /\ (Finished(r, "search") /\ catalog[s].state = "present") =>
             /\ ResultNames(q) \subseteq ToolNames(catalog[s].tools)
             /\ Len(q.results) <= Len(catalog[s].tools)

\* C2 witness: a search that asked for more than the new list holds answers
\* after a re-index that replaced a longer list by a shorter, non-empty one.
SearchAfterShrinkingReindex ==
  \E r \in Reqs :
    /\ Finished(r, "search")
    /\ catalog[req[r].session_id].shrunk
    /\ req[r].results # <<>>
    /\ req[r].top_k > Len(catalog[req[r].session_id].tools)

\* C3: a search on a session that was never indexed, or that was indexed
\* and then deleted, answers with an empty list and a success status.
SearchOnNoCollectionIsEmpty ==
  \A r \in Reqs :
    (Finished(r, "search")
       /\ catalog[req[r].session_id].state \in {"never", "deleted"}) =>
      /\ req[r].results = <<>>
      /\ req[r].status = HttpOk
      /\ req[r].body = "SearchResponse"

\* C3 witness: the query of a search on a deleted session reached the store
\* (the embedding succeeded) with a positive top_k.
SearchAfterDelete ==
  \E r \in Reqs :
    /\ Finished(r, "search")
    /\ catalog[req[r].session_id].state = "deleted"
    /\ req[r].embeddings # <<>>
    /\ req[r].top_k > 0

\* C4: search is fail-open for every failure: whatever raised (the remote
\* call, the query embedding, the store query, a missing collection) the
\* search ends with a success status and, if anything raised, an empty list.
SearchNeverFails ==
  \A r \in Reqs :
    Finished(r, "search") =>
      /\ req[r].status = HttpOk
      /\ req[r].body = "SearchResponse"
      /\ (req[r].raised => req[r].results = <<>>)

\* C4 witness: a search raised although its session's collection exists and
\* holds points, and it asked for at least one result.
SearchFailedOnIndexedSession ==
  \E r \in Reqs :
    /\ Finished(r, "search")
    /\ req[r].raised
    /\ req[r].top_k > 0
    /\ HasCollection(req[r].session_id)
    /\ DOMAIN StoredPoints(req[r].session_id) # {}

DeletedFlagReflectsExistence ==
  \A r \in Reqs :
    Finished(r, "delete") => (req[r].deleted <=> req[r].existed)

\* C7: an index request in which anything raised (listing, deleting or
\* creating the collection, the batch embedding, the upsert) ends in an
\* explicit error and carries no IndexResponse; an IndexResponse is
\* returned only when nothing raised.
IndexFailurePropagates ==
  \A r \in Reqs :
    Finished(r, "index") =>
      /\ (req[r].raised =>
            /\ req[r].status = HttpError
            /\ req[r].body = "HTTPException"
            /\ req[r].indexed_count = 0)
      /\ (req[r].body = "IndexResponse" =>
            ~req[r].raised /\ req[r].status = HttpOk)

\* C7 witness: an index request of a non-empty list failed at its upsert,
\* after the collection was created and the batch embedded.
IndexFailedAtUpsert ==
  \E r \in Reqs :
    /\ Finished(r, "index")
    /\ req[r].raised
    /\ req[r].tools # <<>>
    /\ Len(req[r].embeddings) = Len(req[r].tools)

\* C8 as stated: a delete request whose call raised does not end with a
\* normal success response.
DeleteFailureIsError ==
  \A r \in Reqs :
    (Finished(r, "delete") /\ req[r].raised) => req[r].status # HttpOk

\* C9: an index request that returns normally reports indexed_count =
\* len(tools) and leaves the collection holding exactly the points
\* 0..len(tools)-1, point i carrying the payload {name, description} of
\* tools[i] and nothing else.
IndexStoresExactlyTheTools ==
  \A r \in Reqs :
    LET q == req[r]
        s == q.session_id
    IN  (Finished(r, "index") /\ q.status = HttpOk) =>
          /\ q.indexed_count = Len(q.tools)
          /\ HasCollection(s)
          /\ DOMAIN StoredPoints(s) = 0..(Len(q.tools) - 1)
          /\ \A i \in 0..(Len(q.tools) - 1) :
               StoredPoints(s)[i].payload =
                 [name |-> q.tools[i + 1].name,
                  description |-> q.tools[i + 1].description]

\* C9 witness: an index of two different tools, one of them with a
\* parameters schema, returned normally.
IndexedTwoTools ==
  \E r \in Reqs :
    /\ Finished(r, "index")
    /\ req[r].status = HttpOk
    /\ Len(req[r].tools) >= 2
    /\ req[r].tools[1] # req[r].tools[2]
    /\ \E i \in 1..Len(req[r].tools) : req[r].tools[i].parameters # <<>>

\* C10: a search returns at most top_k results for every top_k >= 0, and
\* an omitted top_k is 15.
TopKBoundsResults ==
  \A r \in Reqs :
    Finished(r, "search") =>
      /\ Len(req[r].results) <= req[r].top_k
      /\ (req[r].top_k_in = <<>> => req[r].top_k = 15)
      /\ (req[r].top_k_in # <<>> => req[r].top_k = req[r].top_k_in[1])

\* C10 witness: a search that omitted top_k, on a collection holding more
\* than 15 points, returned exactly 15 of them.
SearchTruncatedToDefaultTopK ==
  \E r \in Reqs :
    /\ Finished(r, "search")
    /\ req[r].top_k_in = <<>>
    /\ HasCollection(req[r].session_id)
    /\ Cardinality(DOMAIN StoredPoints(req[r].session_id)) > 15
    /\ Len(req[r].results) = 15

\* C11: in the list a search returns the scores never increase from one
\* entry to the next, and the list is the one the store ranked: unless
\* something raised it has as many entries as the store's answer, and its
\* k-th entry carries the name and the score of the store's k-th point.
SearchKeepsStoreRanking ==
  \A r \in Reqs :
    LET q == req[r]
    IN  Finished(r, "search") =>
          /\ \A k \in 1..(Len(q.results) - 1) :
               q.results[k].score >= q.results[k + 1].score
          /\ (~q.raised =>
                /\ Len(q.results) = Len(q.ranked)
                /\ \A k \in 1..Len(q.ranked) :
                     /\ q.results[k].name = q.ranked[k].payload.name
                     /\ q.results[k].score = q.ranked[k].score)

\* C11 witness: a search returned two tools of different names, the first
\* with the strictly higher score.
SearchRankedTwoTools ==
  \E r \in Reqs :
    /\ Finished(r, "search")
    /\ Len(req[r].results) >= 2
    /\ req[r].results[1].score > req[r].results[2].score
    /\ req[r].results[1].name # req[r].results[2].name

\* C12 as stated: of two points of equal score that a search returns, the
\* one inserted first (the smaller point id) comes first.
TiesInInsertionOrder ==
  \A r \in Reqs :
    LET q == req[r]
    IN  Finished(r, "search") =>
          \A k \in 1..Len(q.ranked) : \A l \in (k + 1)..Len(q.ranked) :
            q.ranked[k].score = q.ranked[l].score =>
              q.ranked[k].id < q.ranked[l].id

\* C12: tools of equal score are returned as the store ranked them: two
\* entries of equal score are two different points, each entry carries the
\* name of the point the store put at its place, and every entry between
\* them has the same score.  No tie-break is applied to the store's order.
TiesKeptAsRanked ==
  \A r \in Reqs :
    LET q == req[r]
    IN  (Finished(r, "search") /\ ~q.raised) =>
          \A k \in 1..Len(q.results) : \A l \in (k + 1)..Len(q.results) :
            q.results[k].score = q.results[l].score =>
              /\ q.ranked[k].id # q.ranked[l].id
              /\ q.results[k].name = q.ranked[k].payload.name
              /\ q.results[l].name = q.ranked[l].payload.name
              /\ \A m \in k..l : q.results[m].score = q.results[k].score

\* C12 witness: a search returned two tools of different names and equal
\* score, the one inserted later first.
TieReturnedLatestFirst ==
  \E r \in Reqs :
    /\ Finished(r, "search")
    /\ Len(req[r].results) >= 2
    /\ req[r].results[1].score = req[r].results[2].score
    /\ req[r].results[1].name # req[r].results[2].name
    /\ req[r].ranked[1].id > req[r].ranked[2].id

DrawnFrom(q, tools) ==
  /\ ResultNames(q) \subseteq ToolNames(tools)
  /\ Len(q.results) <= Len(tools)

\* C14: a search that runs while one index request replaces the catalog
\* of its session returns tools of the old list only, or tools of the new
\* list only, or nothing; never tools of both.
SearchDuringReindexNeverMixes ==
  \A r \in Reqs :
    (Finished(r, "search") /\ req[r].session_id = RaceSession) =>
      \/ req[r].results = <<>>
      \/ DrawnFrom(req[r], OldCatalog)
      \/ DrawnFrom(req[r], NewCatalog)

\* C14 witness: a search answered with the tools of the old list, and the
\* index request that ran beside it has since replaced them and returned.
SearchOvertakenByReindex ==
  /\ Finished(Reader, "search")
  /\ req[Reader].session_id = RaceSession
  /\ Len(req[Reader].results) = Len(OldCatalog)
  /\ DrawnFrom(req[Reader], OldCatalog)
  /\ Finished(Writer, "index")
  /\ req[Writer].tools = NewCatalog
  /\ req[Writer].status = HttpOk
  /\ req[Writer].exists

\* C15: a session id owns at most one collection, the one named
\* tools_<session id>.  Different session ids have different collection
\* names, and the collections of the store are exactly the collections
\* so named of the sessions whose catalog is present: no request leaves a
\* second collection for a session, under any other name.
OneCollectionPerSession ==
  /\ \A s \in Sessions : \A t \in Sessions \ {s} :
       CollectionName(s) # CollectionName(t)
  /\ \A s \in Sessions : CollectionName(s) = "tools_" \o s
  /\ DOMAIN collections =
       {CollectionName(s) : s \in {t \in Sessions : catalog[t].state = "present"}}

\* C15 witness: an index request replaced the collection its session
\* already had, while the other session has a collection too.
ReindexedBesideOtherSession ==
  \E r \in Reqs :
    /\ Finished(r, "index")
    /\ req[r].status = HttpOk
    /\ req[r].exists
    /\ \A s \in Sessions : HasCollection(s)

SessionTransition(s) ==
  /\ (~HasCollection(s) /\ HasCollection(s)') =>
       \E r \in Reqs : /\ req[r].session_id = s
                        /\ req[r].pc = "create:create"
  /\ (HasCollection(s) /\ ~HasCollection(s)') =>
       \E r \in Reqs : /\ req[r].session_id = s
                        /\ req[r].pc \in {"create:delete", "delete:delete"}

CatalogSurvivesRecycle ==
  \A s \in Sessions :
    catalog[s].state = "present" =>
      /\ HasCollection(s)
      /\ Cardinality(DOMAIN StoredPoints(s)) = Len(catalog[s].tools)

\* C20: every request is served by a container whose load_model has run
\* exactly once, before the request arrived, and by that container until
\* it is answered: no handler loads the model or builds the client again.
HostLoadedOnce ==
  /\ host.loads = 1
  /\ \A r \in Reqs :
       req[r].kind \in {"index", "search", "delete"} =>
         req[r].conn = host.generation

\* C20 witness: a request was served to its end by the container started
\* after a recycle.
ServedAfterRecycle ==
  \E r \in Reqs :
    /\ req[r].pc = "done"
    /\ req[r].calls > 0
    /\ req[r].conn > 1

\* The body of the request in slot r is invalid input in the sense of the
\* error taxonomy: a search without a query or with an empty one, an
\* index with a malformed tool list.
InvalidInput(r) ==
  \/ /\ req[r].kind \in {"search", "rejected search"}
     /\ req[r].query_in \in {<<>>, <<"">>}
  \/ /\ req[r].kind \in {"index", "rejected index"}
     /\ ~IndexRequestValid(req[r].tools)

\* C18 as stated: a request with invalid input, the empty query included,
\* is rejected and has called neither the embedding model nor the store.
InvalidInputRejected ==
  \A r \in Reqs :
    (req[r].pc = "done" /\ InvalidInput(r)) =>
      /\ req[r].status = HttpUnprocessable
      /\ req[r].calls = 0

\* C18: a body that does not fit its request model is rejected before
\* any call: a search is rejected exactly when its body carries no query,
\* an index exactly when an item of its tool list is malformed, and a
\* rejected request is answered with 422 without a call of the embedding
\* model or of the store.  The empty string is a query like any other:
\* the search is run and answered with a success status.
MalformedBodyRejected ==
  \A r \in Reqs :
    LET q == req[r]
    IN  /\ q.kind \in {"search", "rejected search"} =>
             (q.kind = "rejected search" <=> q.query_in = <<>>)
        /\ q.kind \in {"index", "rejected index"} =>
             (q.kind = "rejected index" <=> ~IndexRequestValid(q.tools))
        /\ q.kind \in {"rejected search", "rejected index"} =>
             /\ q.pc = "done"
             /\ q.status = HttpUnprocessable
             /\ q.calls = 0
             /\ q.results = <<>>
        /\ (Finished(r, "search") /\ q.query_in = <<"">>) =>
             /\ q.status = HttpOk
             /\ q.calls > 0

\* C18 witness: a search with the empty query was run and returned tools.
EmptyQuerySearched ==
  \E r \in Reqs :
    /\ Finished(r, "search")
    /\ req[r].query_in = <<"">>
    /\ req[r].results # <<>>

\* The store as the requests of session s alone would have left it: the
\* collection of s with the points of the tools last written, when the
\* catalog of s is present, and nothing otherwise.
OwnStore(s) ==
  IF catalog[s].state = "present"
  THEN CollectionName(s) :>
         [config |-> VectorParams,
          points |-> BuildPoints(catalog[s].tools,
                       GenerateEmbeddingsBatch(
                         [i \in 1..Len(catalog[s].tools) |->
                            CompositeDocument(catalog[s].tools[i])]))]
  ELSE <<>>

\* C19: requests of different sessions do not interfere, however their
\* steps interleave.  The collection of each session is at every moment
\* what the requests of that session alone have made it; an index request
\* that returns normally reports the number of its own tools; and a
\* search on a session none of whose requests runs beside it returns
\* what the store would answer if it held that session's collection only.
SessionsDoNotInterfere ==
  /\ \A s \in Sessions :
       [n \in (DOMAIN collections) \cap {CollectionName(s)} |-> collections[n]]
         = OwnStore(s)
  /\ \A r \in Reqs :
       LET q == req[r]
           s == q.session_id
       IN  /\ (Finished(r, "index") /\ q.status = HttpOk) =>
                q.indexed_count = Len(q.tools)
           /\ (Finished(r, "search") /\ s = PeerSession /\ ~q.raised) =>
                /\ catalog[s].state = "present"
                /\ q.results \in
                     {FormatResults(x) :
                        x \in QdrantSearch(OwnStore(s), CollectionName(s),
                                           Embed(q.query), SearchLimit(q.top_k))}

\* C19 witness: two index requests of different sessions and different
\* tool lists ran at the same time and both returned normally, the second
\* session replacing a collection it had.
TwoSessionsIndexedTogether ==
  /\ Finished(Writer, "index")
  /\ Finished(Reader, "index")
  /\ req[Writer].status = HttpOk
  /\ req[Reader].status = HttpOk
  /\ req[Writer].session_id # req[Reader].session_id
  /\ req[Writer].tools # req[Reader].tools
  /\ req[Reader].exists

\* C21: an index request calls the embedding model at most once and
\* writes to the store at most once; one that returns normally has made
\* exactly one embedding call, with the texts "name: description" of all
\* its tools in input order, and exactly one upsert, of as many points
\* as it has tools.
OneBatchOneWrite ==
  \A r \in Reqs :
    LET q == req[r]
    IN  q.kind = "index" =>
          /\ Len(q.batches) <= 1
          /\ Len(q.writes) <= 1
          /\ (q.pc = "done" /\ q.status = HttpOk) =>
                /\ q.batches =
                     <<[i \in 1..Len(q.tools) |->
                          q.tools[i].name \o ": " \o q.tools[i].description]>>
                /\ q.writes = <<Len(q.tools)>>

\* C21 witness: an index request of more than fifteen tools returned
\* normally.
IndexedLongList ==
  \E r \in Reqs :
    /\ Finished(r, "index")
    /\ req[r].status = HttpOk
    /\ Len(req[r].tools) > DefaultTopK

CreateOrReplaceLeavesEmpty ==
  /\ \A r \in Reqs :
       (req[r].kind = "index"
          /\ req[r].pc \in {"insert:embed", "insert:upsert"}) =>
         /\ HasCollection(req[r].session_id)
         /\ StoredPoints(req[r].session_id) = <<>>
  /\ \A n \in DOMAIN collections :
       collections[n].config = [size |-> 384, distance |-> "Cosine"]

\* C23 witness: create_collection has returned normally on a session
\* whose collection held points when it was called.
ReplacedNonEmptyCollection ==
  \E r \in Reqs :
    /\ req[r].kind = "index"
    /\ req[r].pc = "insert:embed"
    /\ req[r].exists
    /\ req[r].old_count > 0

\* The collection named n is not the same before and after the step.
CollectionChanged(n) ==
  \/ n \notin DOMAIN collections
  \/ n \notin DOMAIN collections'
  \/ collections[n] # collections'[n]

\* C24: a step changes the existence, the configuration or the points of
\* a collection only as a step of an index or delete request of the
\* session the collection is named for; the collections of every other
\* session are as they were, whether the call returned or raised.
OnlyOwnCollectionWritten ==
  [][\A n \in (DOMAIN collections) \cup (DOMAIN collections') :
       CollectionChanged(n) =>
         \E r \in Reqs : /\ req'[r] # req[r]
                          /\ req[r].kind \in {"index", "delete"}
                          /\ CollectionName(req[r].session_id) = n]_vars

\* C24 witness: an index request of one session raised at its upsert
\* while the other session, indexed at the same time, holds its points.
IndexFailedBesidePeer ==
  /\ Finished(Writer, "index")
  /\ req[Writer].failed_at = "insert:upsert"
  /\ Finished(Reader, "index")
  /\ req[Reader].status = HttpOk
  /\ req[Reader].session_id = PeerSession
  /\ DOMAIN StoredPoints(PeerSession) # {}

\* C25: a search is read-only.  No step of a search request, from its
\* arrival to its answer, whether it returns tools or degrades to the
\* empty list, changes the set of collections or a point of any of them.
SearchIsReadOnly ==
  [][\A r \in Reqs :
       (/\ req'[r] # req[r]
        /\ \/ req[r].kind = "search"
           \/ req'[r].kind \in {"search", "rejected search"}) =>
         collections' = collections]_vars

\* C25 witness: the query of a search on a session that was never
\* indexed reached the store, which holds the collection of another
\* session, and the session still has no collection.
SearchedNeverIndexedSession ==
  \E r \in Reqs :
    /\ Finished(r, "search")
    /\ catalog[req[r].session_id].state = "never"
    /\ req[r].embeddings # <<>>
    /\ ~HasCollection(req[r].session_id)
    /\ collections # <<>>

\* C26: once two index requests for the same session, one with each
\* catalog, have both finished with success, the collection of the
\* session holds exactly the points of one of the two catalogs: every
\* stored point comes from the same request.
ConcurrentIndexLeavesOneCatalog ==
  \A a, b \in Reqs :
    (/\ a # b
     /\ Finished(a, "index") /\ Finished(b, "index")
     /\ req[a].status = HttpOk /\ req[b].status = HttpOk
     /\ ~req[a].raised /\ ~req[b].raised
     /\ req[a].session_id = req[b].session_id
     /\ req[a].tools # req[b].tools) =>
      /\ HasCollection(req[a].session_id)
      /\ \E r \in {a, b} :
           StoredPoints(req[a].session_id) =
             BuildPoints(req[r].tools, req[r].embeddings)

\* C27 (as stated): of two concurrent create_collection calls on one
\* session none fails because the other created the collection in
\* between: a create step that ends its request with an error found the
\* name free, so the error came from the backend and not from the peer.
ConcurrentCreateNeverCollides ==
  [][\A r \in Reqs :
       (/\ req[r].pc = "create:create"
        /\ req'[r].pc = "done"
        /\ req'[r].status = HttpError) =>
         ~HasCollection(req[r].session_id)]_vars

\* C27 (amended): the create step of create_collection succeeds exactly
\* when the name is free at that moment, and then leaves one empty
\* collection of that name; when a concurrent call created the
\* collection after this call's existence check (or after its delete),
\* the step leaves the store as it is and the request ends with an
\* error.
CreateSucceedsOnFreeName ==
  [][\A r \in Reqs :
       LET name == CollectionName(req[r].session_id)
       IN  (req[r].pc = "create:create" /\ req'[r].pc # "create:create") =>
             IF name \in DOMAIN collections
             THEN /\ req'[r].pc = "done"
                  /\ req'[r].status = HttpError
                  /\ req'[r].failed_at = "create:exists"
                  /\ collections' = collections
             ELSE /\ req'[r].pc = "insert:embed" =>
                       /\ name \in DOMAIN collections'
                       /\ collections'[name].points = <<>>
                       /\ DOMAIN collections' = DOMAIN collections \cup {name}
                  /\ req'[r].pc = "done" => req'[r].status = HttpError]_vars

\* C27 witness: two index requests on one session overlapped, both
\* found no collection at their existence check, one created it, and the
\* create of the other was refused.
CreateRefusedAfterPeerCreated ==
  \E a, b \in Reqs :
    /\ a # b
    /\ Finished(a, "index")
    /\ req[a].failed_at = "create:exists"
    /\ ~req[a].exists
    /\ req[b].kind = "index"
    /\ req[b].session_id = req[a].session_id
    /\ ~req[b].exists
    /\ req[b].pc = "insert:embed"
    /\ HasCollection(req[a].session_id)
    /\ StoredPoints(req[a].session_id) = <<>>

\* C28 (as stated): an index request on a session that held tools, which
\* fails in insert_points (at the batch embedding or at the upsert) after
\* create_collection completed, leaves the collection of the session in
\* place and empty, and the caller gets an error.
FailedInsertLeavesEmpty ==
  \A r \in Reqs :
    LET q == req[r]
    IN  (/\ Finished(r, "index")
         /\ q.failed_at \in {"insert:embed", "insert:upsert"}
         /\ q.exists /\ q.old_count > 0 /\ q.alone) =>
          /\ q.status = HttpError
          /\ HasCollection(q.session_id)
          /\ StoredPoints(q.session_id) = <<>>

\* C28 (amended): such a request gets an error and leaves the collection
\* in place with nothing of the old catalog: it is empty when the
\* embedding failed or the upsert was not applied, and holds exactly the
\* points of the new catalog when the upsert was applied and only its
\* answer was lost.
FailedInsertLeavesNothingOld ==
  \A r \in Reqs :
    LET q == req[r]
    IN  (/\ Finished(r, "index")
         /\ q.failed_at \in {"insert:embed", "insert:upsert"}
         /\ q.exists /\ q.old_count > 0 /\ q.alone) =>
          /\ q.status = HttpError
          /\ HasCollection(q.session_id)
          /\ IF q.failed_at = "insert:embed"
             THEN StoredPoints(q.session_id) = <<>>
             ELSE \/ StoredPoints(q.session_id) = <<>>
                  \/ StoredPoints(q.session_id) =
                       BuildPoints(q.tools, q.embeddings)

\* C28 witness: a re-index of a session that held two tools failed at
\* the batch embedding; the session keeps a collection without points.
ReindexFailedAtEmbedding ==
  \E r \in Reqs :
    /\ Finished(r, "index")
    /\ req[r].failed_at = "insert:embed"
    /\ req[r].exists
    /\ req[r].old_count = 2
    /\ req[r].status = HttpError
    /\ HasCollection(req[r].session_id)
    /\ StoredPoints(req[r].session_id) = <<>>

\* C29: with the requests served one after the other, a search that met
\* no failure on a session whose collection holds n tools returns exactly
\* min(n, top_k) results, for every top_k from 0 up; so on a session
\* indexed with at least one tool a search with top_k >= 1 is never
\* empty.
SearchReturnsMinOfCountAndTopK ==
  \A r \in Reqs :
    LET q == req[r]
        s == q.session_id
    IN  (Finished(r, "search") /\ ~q.raised) =>
          /\ HasCollection(s)
          /\ Len(q.results) =
               Min(Cardinality(DOMAIN StoredPoints(s)), q.top_k)
          /\ (StoredPoints(s) # <<>> /\ q.top_k >= 1) => q.results # <<>>

\* C29 witness: a search with top_k = 1 on a session holding two tools
\* returned one result.
SearchCutToTopK ==
  \E r \in Reqs :
    /\ Finished(r, "search")
    /\ ~req[r].raised
    /\ req[r].top_k = 1
    /\ HasCollection(req[r].session_id)
    /\ Cardinality(DOMAIN StoredPoints(req[r].session_id)) = 2
    /\ Len(req[r].results) = 1

\* C30: tool names need not be unique.  A successful index request
\* stores one point per element of the list, keyed by its position, and
\* reports indexed_count = len(tools), also when names repeat; a search
\* returns one result per ranked point and drops none for having the name
\* of another.
OnePointPerListElement ==
  \A r \in Reqs :
    LET q == req[r]
        s == q.session_id
    IN  /\ (Finished(r, "index") /\ q.status = HttpOk /\ ~q.raised) =>
             /\ HasCollection(s)
             /\ DOMAIN StoredPoints(s) = {PointId(i - 1) : i \in 1..Len(q.tools)}
             /\ Cardinality(DOMAIN StoredPoints(s)) = Len(q.tools)
             /\ q.indexed_count = Len(q.tools)
             /\ \A i \in 1..Len(q.tools) :
                  StoredPoints(s)[PointId(i - 1)].payload = Payload(q.tools[i])
        /\ (Finished(r, "search") /\ ~q.raised) =>
             /\ Len(q.results) = Len(q.ranked)
             /\ \A j, k \in 1..Len(q.ranked) :
                  j # k => q.ranked[j].id # q.ranked[k].id
             /\ \A k \in 1..Len(q.ranked) :
                  q.results[k].name = q.ranked[k].payload.name

\* C30 witness: the session holds two points of the same name and a
\* search returned that name twice.
SameNameReturnedTwice ==
  \E r \in Reqs :
    /\ Finished(r, "search")
    /\ ~req[r].raised
    /\ Len(req[r].results) = 2
    /\ req[r].results[1].name = req[r].results[2].name
    /\ HasCollection(req[r].session_id)
    /\ Cardinality(DOMAIN StoredPoints(req[r].session_id)) = 2

\* C31: an index request never reports success for a catalog that was
\* not written.  A request answers with success only from its upsert
\* step, and that step found the collection of the session and wrote
\* every tool of the list into it, the count it reports being the length
\* of the list; when the collection was deleted after create_collection,
\* the upsert finds none, the request ends with an error and the session
\* stays without a collection.
IndexSuccessMeansWritten ==
  [][\A r \in Reqs :
       LET q == req[r]
           name == CollectionName(q.session_id)
       IN  (q.kind = "index" /\ q.pc # "done" /\ req'[r].pc = "done") =>
             /\ req'[r].status = HttpOk =>
                  /\ q.pc = "insert:upsert"
                  /\ name \in DOMAIN collections
                  /\ name \in DOMAIN collections'
                  /\ req'[r].indexed_count = Len(q.tools)
                  /\ \A i \in 1..Len(q.tools) :
                       /\ PointId(i - 1) \in DOMAIN collections'[name].points
                       /\ collections'[name].points[PointId(i - 1)].payload =
                            Payload(q.tools[i])
             /\ (q.pc = "insert:upsert" /\ name \notin DOMAIN collections) =>
                  /\ req'[r].status = HttpError
                  /\ req'[r].failed_at = "insert:upsert"
                  /\ collections' = collections]_vars

\* C31 witness: a delete request found and removed the collection an
\* index request in flight had created; the upsert of the index request
\* then failed, and the session has no collection.
UpsertAfterDeleteFailed ==
  \E a, b \in Reqs :
    /\ a # b
    /\ Finished(a, "index")
    /\ req[a].failed_at = "insert:upsert"
    /\ req[a].status = HttpError
    /\ ~req[a].exists
    /\ Finished(b, "delete")
    /\ req[b].existed
    /\ req[b].session_id = req[a].session_id
    /\ catalog[req[a].session_id].state = "deleted"
    /\ ~HasCollection(req[a].session_id)

\* The ids and scores of a ranked list, in its order.
RankedIdScores(ranked) ==
  [k \in 1..Len(ranked) |-> [id |-> ranked[k].id, score |-> ranked[k].score]]

\* The names and scores of a ranked list, in its order.
RankedNameScores(ranked) ==
  [k \in 1..Len(ranked) |->
     [name |-> ranked[k].payload.name, score |-> ranked[k].score]]

\* C32: EmbeddingService and LocalEmbeddingService are equivalent on the
\* indexing path.  After any sequence of calls made to both with the same
\* arguments the two stores hold the same collections, of the same
\* configuration, with the same point ids, vectors and payloads; a call
\* of create_collection or insert_points returns in both or raises in
\* both, insert_points with the same count; and on an existing collection
\* search_similar has the same possible answers in both, the same points
\* with the same scores in the same order, the names the service returns
\* being those of the points LocalEmbeddingService returns.
LocalAndServiceAgree ==
  /\ DOMAIN local.qdrant = DOMAIN collections
  /\ \A n \in DOMAIN collections :
       /\ local.qdrant[n].config = collections[n].config
       /\ DOMAIN local.qdrant[n].points = DOMAIN collections[n].points
       /\ \A id \in DOMAIN collections[n].points :
            /\ local.qdrant[n].points[id].payload =
                 collections[n].points[id].payload
            /\ local.qdrant[n].points[id].vector =
                 collections[n].points[id].vector
  /\ local.out.kind \in {"create_collection", "insert_points"} =>
       /\ req[Main].kind = local.out.kind
       /\ req[Main].body = local.out.body
       /\ local.out.kind = "insert_points" => req[Main].value = local.out.value
  /\ \A s \in Sessions, query \in Queries, top_k \in 0..MaxTopK :
       (HasCollection(s) /\ LocalCollectionName(s) \in DOMAIN local.qdrant) =>
         /\ {RankedIdScores(o.ranked) :
               o \in ServiceSearchSimilar(collections, s, query, top_k, "none")}
            = {RankedIdScores(o.value) :
               o \in LocalSearchSimilar(local.qdrant, s, query, top_k, "none")}
         /\ {o.value :
               o \in ServiceSearchSimilar(collections, s, query, top_k, "none")}
            = {RankedNameScores(o.value) :
               o \in LocalSearchSimilar(local.qdrant, s, query, top_k, "none")}
  /\ (local.out.kind = "search_similar" /\ local.out.found
        /\ local.out.fault = "none") =>
       /\ req[Main].body = "return" /\ local.out.body = "return"
       /\ Len(req[Main].value) = Len(local.out.value)
       /\ \A k \in 1..Len(local.out.value) :
            req[Main].value[k].score = local.out.value[k].score

\* C32 witness: both services were given a collection of two tools and
\* then the same query, and each returned the two points.
BothServicesSearched ==
  /\ local.out.kind = "search_similar"
  /\ local.out.found
  /\ local.out.fault = "none"
  /\ Len(local.out.value) = 2
  /\ Len(req[Main].value) = 2
  /\ req[Main].value = RankedNameScores(local.out.value)
  /\ Cardinality(DOMAIN local.qdrant[LocalCollectionName(local.out.session_id)].points) = 2

\* C33: LocalEmbeddingService does not normalise errors.  Its
\* search_similar on a session without a collection raises, where that of
\* EmbeddingService returns the empty list; its delete_collection raises
\* when the backend call fails, where that of EmbeddingService returns
\* False.
LocalDoesNotNormalise ==
  /\ (local.out.kind = "search_similar" /\ ~local.out.found) =>
       /\ local.out.body = "raise"
       /\ req[Main].kind = "search_similar"
       /\ req[Main].body = "return"
       /\ Len(req[Main].value) = 0
  /\ (local.out.kind = "delete_collection" /\ local.out.fault = "delete") =>
       /\ local.out.body = "raise"
       /\ req[Main].kind = "delete_collection"
       /\ req[Main].body = "return"
       /\ req[Main].value = <<FALSE>>

\* C33 witness: with the backend in order and another session indexed,
\* both services were asked to search a session without a collection:
\* LocalEmbeddingService raised and EmbeddingService returned the empty
\* list.
LocalSearchRaisedOnMissing ==
  /\ local.out.kind = "search_similar"
  /\ ~local.out.found
  /\ local.out.fault = "none"
  /\ local.out.body = "raise"
  /\ req[Main].body = "return"
  /\ req[Main].value = <<>>
  /\ local.qdrant # <<>>

====
